---- MODULE Spec2Model ----
(***************************************************************************)
(* AdMetric Pro: Meta Ads CSV export -> formatted Excel report.            *)
(*                                                                         *)
(* Numbers.  A Python float that carries a currency amount or a percentage *)
(* is kept as an integer number of hundredths (1000.00 is 100000, a CTR of *)
(* 2.5 % is 250).  Click and impression counts are plain integers.  The    *)
(* unrounded quotient inside a metric is the exact fraction num/den, and   *)
(* round(x, 2) is the nearest hundredth, ties to the even one.             *)
(***************************************************************************)
EXTENDS Integers, Sequences, FiniteSets, TLC

VARIABLES
    pc,             \* where the caller of the operation under study stands
    clicks,         \* argument of calculate_ctr / calculate_cpc
    impressions,    \* argument of calculate_ctr
    spend,          \* argument of calculate_cpc (hundredths)
    ctr,            \* what calculate_ctr returned
    cpc,            \* what calculate_cpc returned
    file,           \* the input file on disk: path suffix, existence, content
    df,             \* the table read_meta_csv returned (NoFrame before / on failure)
    raised,         \* the exception the operation under study raised (NoExc if none)
    df_with_metrics,\* the table add_metrics_to_dataframe returned
    apply_empty,    \* what the installed pandas makes of DataFrame.apply(axis=1)
                    \* on a table without rows: "Series" or "DataFrame"
    given_threshold, \* the threshold argument given to apply_conditional_formatting
    workbook,       \* the sheets the formatter functions built for their caller
    calls,          \* the generate_report calls a caller has made, oldest first
    CPC_THRESHOLD,  \* the module attribute excel_formatter.CPC_THRESHOLD
    args,           \* the parsed command line of the running main()
    disk,           \* output side of the filesystem: directories and report files
    now,            \* the wall clock datetime.now() reads, in seconds
    exit_code,      \* what main() returned (NoExit while it runs)
    report_path,    \* what generate_report returned to main
    log_level,      \* the level of the root logger of the process
    invocation      \* how many times main() has been entered in this process

metricVars == <<clicks, impressions, spend, ctr, cpc>>
readerVars == <<file, df, raised>>
augmentVars == <<df_with_metrics, apply_empty>>
reportVars == <<given_threshold, workbook, calls>>
mainVars == <<CPC_THRESHOLD, args, disk, now, exit_code, report_path, log_level,
              invocation>>
vars == <<pc, metricVars, readerVars, augmentVars, reportVars, mainVars>>

(***************************************************************************)
(* Bounds of the model.                                                    *)
(***************************************************************************)
MaxCount == 6       \* click and impression arguments range over -2..MaxCount
MaxRows == 2        \* data rows of an input file
MaxRuns == 2        \* invocations of main() in one process

Counts == -2..MaxCount
Spends == {-500, 0, 5, 15, 1000, 2001, 100000}

(***************************************************************************)
(* Python values.                                                          *)
(***************************************************************************)
NotCalled == [exc |-> "not called", val |-> 0]
Returned(v) == [exc |-> "none", val |-> v]
Raised(e) == [exc |-> e, val |-> 0]

Abs(x) == IF x < 0 THEN -x ELSE x

\* a / b on Python numbers: the fraction a/b, ZeroDivisionError when b = 0.
TrueDiv(a, b) ==
    IF b = 0 THEN [exc |-> "ZeroDivisionError", num |-> 0, den |-> 1]
    ELSE IF b < 0 THEN [exc |-> "none", num |-> -a, den |-> -b]
    ELSE [exc |-> "none", num |-> a, den |-> b]

\* The integer nearest to num/den (den > 0), a tie going to the even one.
RoundHalfEven(num, den) ==
    LET q == num \div den
        r == num - q * den
    IN  IF 2 * r < den THEN q
        ELSE IF 2 * r > den THEN q + 1
        ELSE IF q % 2 = 0 THEN q ELSE q + 1

(***************************************************************************)
(* Text.  A text is a sequence of one-character strings, so that parsing a *)
(* cell and lower-casing a suffix are computed character by character.     *)
(***************************************************************************)
Digits == {"0", "1", "2", "3", "4", "5", "6", "7", "8", "9"}

DigitVal(ch) ==
    CASE ch = "0" -> 0 [] ch = "1" -> 1 [] ch = "2" -> 2 [] ch = "3" -> 3
      [] ch = "4" -> 4 [] ch = "5" -> 5 [] ch = "6" -> 6 [] ch = "7" -> 7
      [] ch = "8" -> 8 [] ch = "9" -> 9

LowerChar(ch) ==
    CASE ch = "C" -> "c" [] ch = "S" -> "s" [] ch = "V" -> "v"
      [] ch = "I" -> "i" [] ch = "N" -> "n" [] ch = "F" -> "f"
      [] ch = "T" -> "t" [] ch = "X" -> "x" [] ch = "U" -> "u"
      [] ch = "L" -> "l" [] ch = "A" -> "a"
      [] OTHER -> ch

Lower_identity(t) == t

\* str.lower()
Lower(t) == [k \in 1..Len(t) |-> LowerChar(t[k])]

IsDigits(t) == \A k \in 1..Len(t) : t[k] \in Digits

RECURSIVE DigitsValue(_)
DigitsValue(t) ==
    IF Len(t) = 0 THEN 0
    ELSE 10 * DigitsValue(SubSeq(t, 1, Len(t) - 1)) + DigitVal(t[Len(t)])

Range(f) == {f[k] : k \in DOMAIN f}

\* Position of the first x in sequence f (0 when absent).
IndexOf(f, x) ==
    IF x \in Range(f) THEN CHOOSE k \in 1..Len(f) : f[k] = x /\ \A j \in 1..(k - 1) : f[j] # x
    ELSE 0

NotIn_first_only(f, cols) ==
    IF \E k \in 1..Len(f) : f[k] \notin cols
    THEN <<f[CHOOSE k \in 1..Len(f) : f[k] \notin cols /\ \A j \in 1..(k - 1) : f[j] \in cols]>>
    ELSE <<>>

\* [x for x in f if x not in cols], order of f kept.
RECURSIVE NotIn(_, _)
NotIn(f, cols) ==
    IF Len(f) = 0 THEN <<>>
    ELSE IF Head(f) \in cols THEN NotIn(Tail(f), cols)
    ELSE <<Head(f)>> \o NotIn(Tail(f), cols)

(***************************************************************************)
(* pandas numbers.  A parsed cell is a finite number (hundredths), NaN or  *)
(* an infinity.                                                            *)
(***************************************************************************)
Num(v) == [kind |-> "num", v |-> v]
NaN == [kind |-> "nan", v |-> 0]
Inf == [kind |-> "inf", v |-> 0]

\* An unsigned decimal literal: digits, optionally a point and more digits
\* (the cells of the model carry at most two decimals).
ParseUnsigned(t) ==
    LET dot == IndexOf(t, ".")
        ip == IF dot = 0 THEN t ELSE SubSeq(t, 1, dot - 1)
        fp == IF dot = 0 THEN <<>> ELSE SubSeq(t, dot + 1, Len(t))
        f2 == IF Len(fp) = 0 THEN 0
              ELSE IF Len(fp) = 1 THEN 10 * DigitVal(fp[1])
              ELSE 10 * DigitVal(fp[1]) + DigitVal(fp[2])
    IN  IF Len(ip) + Len(fp) = 0 \/ ~IsDigits(ip) \/ ~IsDigits(fp) THEN NaN
        ELSE Num(100 * DigitsValue(ip) + f2)

\* pd.to_numeric(cell, errors="coerce") on the text of one cell, which is also
\* what read_csv's own inference followed by to_numeric gives for that cell.
to_numeric(t) ==
    LET neg == Len(t) > 0 /\ t[1] = "-"
        body == IF Len(t) > 0 /\ t[1] \in {"-", "+"} THEN Tail(t) ELSE t
        u == ParseUnsigned(body)
    IN  IF Lower(body) \in {<<"i", "n", "f">>, <<"i", "n", "f", "i", "n", "i", "t", "y">>}
        THEN Inf
        ELSE IF u.kind = "num" /\ neg THEN Num(-u.v) ELSE u

\* Series.fillna(0) on one value.
fillna(x) == IF x.kind = "nan" THEN Num(0) ELSE x

\* float -> int of one finite value: the fraction is cut off, toward zero.
TruncToInt(v) == IF v < 0 THEN -((-v) \div 100) ELSE v \div 100

(***************************************************************************)
(* Tables.  A DataFrame is its column labels, in order, and its rows, each *)
(* a function from column label to value.                                  *)
(***************************************************************************)
NoFrame == [columns |-> <<>>, rows |-> <<>>, none |-> TRUE]
Frame(cols, rows) == [columns |-> cols, rows |-> rows, none |-> FALSE]

NoExc == [type |-> "none", msg |-> "", missing |-> <<>>]
Exc(type, msg) == [type |-> type, msg |-> msg, missing |-> <<>>]
ExcMissing(type, msg, missing) == [type |-> type, msg |-> msg, missing |-> missing]

(***************************************************************************)
(* csv_reader.py                                                           *)
(***************************************************************************)
REQUIRED_COLUMNS == <<"Campaign Name", "Amount Spent (ZAR)", "Link Clicks", "Impressions">>

COLUMN_MAPPING ==
    [c \in Range(REQUIRED_COLUMNS) |->
        CASE c = "Campaign Name" -> "campaign_name"
          [] c = "Amount Spent (ZAR)" -> "amount_spent"
          [] c = "Link Clicks" -> "link_clicks"
          [] c = "Impressions" -> "impressions"]

\* read_csv without dtype / keep_default_na: a name that reads as a number is
\* stored as that number, a null-like name as NaN.
read_csv_inferred(content) ==
    Frame(content.header,
          [r \in 1..Len(content.rows) |->
              [c \in Range(content.header) |->
                  LET t == content.rows[r][IndexOf(content.header, c)]
                  IN  IF t = <<"N", "U", "L", "L">> THEN <<"n", "a", "n">>
                      ELSE IF t = <<"0", "0">> THEN <<"0">>
                      ELSE t]])

\* pd.read_csv(path, dtype={"Campaign Name": str}, keep_default_na=False,
\* na_values=[]) on a file that tokenizes: the header gives the labels and
\* every data row one record, cell k under label k, its text kept.
read_csv(content) ==
    Frame(content.header,
          [r \in 1..Len(content.rows) |->
              [c \in Range(content.header) |->
                  content.rows[r][IndexOf(content.header, c)]]])

SelectColumns_all(frame, cols) == frame

\* df[cols].copy(): the named columns, in the order asked for.
SelectColumns(frame, cols) ==
    Frame(cols, [r \in 1..Len(frame.rows) |-> [c \in Range(cols) |-> frame.rows[r][c]]])

\* df.rename(columns=mapping): labels replaced in place, order kept.
RenameColumns(frame, mapping) ==
    LET new == [k \in 1..Len(frame.columns) |->
                   IF frame.columns[k] \in DOMAIN mapping
                   THEN mapping[frame.columns[k]] ELSE frame.columns[k]]
    IN  Frame(new,
              [r \in 1..Len(frame.rows) |->
                  [c \in Range(new) |-> frame.rows[r][frame.columns[IndexOf(new, c)]]]])

\* pd.to_numeric(column, errors="coerce").fillna(0): one value per row, each a
\* finite number or an infinity.
CoerceColumn(frame, col) ==
    [r \in 1..Len(frame.rows) |-> fillna(to_numeric(frame.rows[r][col]))]

\* Series.astype(int) refuses a column that holds a value that is not finite.
AstypeIntRefused(column) == \E r \in DOMAIN column : column[r].kind # "num"

NonFinite == Exc("ValueError", "Cannot convert non-finite values (NA or inf) to integer")

\* Lines 94-99: campaign_name astype(str) keeps the text; amount_spent becomes
\* a float column (hundredths; the spend cells of the model are finite);
\* link_clicks, then impressions, become int columns.
EnsureTypes(mapped) ==
    LET amount_spent == CoerceColumn(mapped, "amount_spent")
        link_clicks == CoerceColumn(mapped, "link_clicks")
        impr == CoerceColumn(mapped, "impressions")
    IN  IF AstypeIntRefused(link_clicks) \/ AstypeIntRefused(impr)
        THEN [exc |-> NonFinite, df |-> NoFrame]
        ELSE [exc |-> NoExc,
              df |-> Frame(mapped.columns,
                        [r \in 1..Len(mapped.rows) |->
                            [c \in Range(mapped.columns) |->
                                CASE c = "amount_spent" -> amount_spent[r].v
                                  [] c = "link_clicks" -> TruncToInt(link_clicks[r].v)
                                  [] c = "impressions" -> TruncToInt(impr[r].v)
                                  [] OTHER -> mapped.rows[r][c]]])]

read_meta_csv_suffix_first(f) ==
    IF Lower(f.suffix) # <<".", "c", "s", "v">>
    THEN [exc |-> Exc("ValueError", "Expected CSV file"), df |-> NoFrame]
    ELSE IF ~f.exists
    THEN [exc |-> Exc("FileNotFoundError", "Meta Ads CSV file not found"), df |-> NoFrame]
    ELSE IF f.content.kind = "empty"
    THEN [exc |-> Exc("ValueError", "CSV file is empty"), df |-> NoFrame]
    ELSE IF f.content.kind = "malformed"
    THEN [exc |-> Exc("ValueError", "Invalid CSV format"), df |-> NoFrame]
    ELSE IF f.content.kind = "unreadable"
    THEN [exc |-> Exc("PermissionError", "Permission denied"), df |-> NoFrame]
    ELSE LET raw == read_csv(f.content)
             missing_columns == NotIn(REQUIRED_COLUMNS, Range(raw.columns))
         IN  IF Len(missing_columns) > 0
             THEN [exc |-> ExcMissing("ValueError", "Missing required columns in CSV",
                                      missing_columns),
                   df |-> NoFrame]
             ELSE EnsureTypes(RenameColumns(SelectColumns(raw, REQUIRED_COLUMNS),
                                            COLUMN_MAPPING))

\* The checks in the order of the code: existence, suffix, content that
\* read_csv refuses, required labels, then the conversions.
read_meta_csv(f) ==
    IF ~f.exists
    THEN [exc |-> Exc("FileNotFoundError", "Meta Ads CSV file not found"), df |-> NoFrame]
    ELSE IF Lower(f.suffix) # <<".", "c", "s", "v">>
    THEN [exc |-> Exc("ValueError", "Expected CSV file"), df |-> NoFrame]
    ELSE IF f.content.kind = "empty"
    THEN [exc |-> Exc("ValueError", "CSV file is empty"), df |-> NoFrame]
    ELSE IF f.content.kind = "malformed"
    THEN [exc |-> Exc("ValueError", "Invalid CSV format"), df |-> NoFrame]
    ELSE IF f.content.kind = "unreadable"
    THEN [exc |-> Exc("PermissionError", "Permission denied"), df |-> NoFrame]
    ELSE LET raw == read_csv(f.content)
             missing_columns == NotIn(REQUIRED_COLUMNS, Range(raw.columns))
         IN  IF Len(missing_columns) > 0
             THEN [exc |-> ExcMissing("ValueError", "Missing required columns in CSV",
                                      missing_columns),
                   df |-> NoFrame]
             ELSE EnsureTypes(RenameColumns(SelectColumns(raw, REQUIRED_COLUMNS),
                                            COLUMN_MAPPING))

(***************************************************************************)
(* metrics.py                                                              *)
(***************************************************************************)
calculate_ctr_eq_guard(c, i) ==
    IF i = 0 THEN Returned(0)
    ELSE LET q == TrueDiv(c, i)
         IN  IF q.exc # "none" THEN Raised(q.exc)
             ELSE Returned(RoundHalfEven(q.num * 100 * 100, q.den))

\* ctr = (clicks / impressions) * 100; return round(ctr, 2), in hundredths.
calculate_ctr(c, i) ==
    IF i <= 0 THEN Returned(0)
    ELSE LET q == TrueDiv(c, i)
         IN  IF q.exc # "none" THEN Raised(q.exc)
             ELSE Returned(RoundHalfEven(q.num * 100 * 100, q.den))

calculate_cpc_no_guard(s, c) ==
    LET q == TrueDiv(s, c)
    IN  IF q.exc # "none" THEN Raised(q.exc)
        ELSE Returned(RoundHalfEven(q.num, q.den))

calculate_cpc_zero_only(s, c) ==
    IF c = 0 THEN Returned(0)
    ELSE LET q == TrueDiv(s, c)
         IN  IF q.exc # "none" THEN Raised(q.exc)
             ELSE Returned(RoundHalfEven(q.num, q.den))

\* cpc = spend / clicks; return round(cpc, 2).  s and the result are hundredths.
calculate_cpc(s, c) ==
    IF c <= 0 THEN Returned(0)
    ELSE LET q == TrueDiv(s, c)
         IN  IF q.exc # "none" THEN Raised(q.exc)
             ELSE Returned(RoundHalfEven(q.num, q.den))

SetColumn_append(frame, col, values) ==
    Frame(Append(frame.columns, col),
          [r \in 1..Len(frame.rows) |->
              [c \in Range(frame.columns) \cup {col} |->
                  IF c = col THEN values[r] ELSE frame.rows[r][c]]])

SetColumn_front(frame, col, values) ==
    Frame(IF col \in Range(frame.columns) THEN frame.columns
          ELSE <<col>> \o frame.columns,
          [r \in 1..Len(frame.rows) |->
              [c \in Range(frame.columns) \cup {col} |->
                  IF c = col THEN values[r] ELSE frame.rows[r][c]]])

\* df[col] = values: an existing column is overwritten where it stands, a new
\* one is appended after the last column.
SetColumn(frame, col, values) ==
    Frame(IF col \in Range(frame.columns) THEN frame.columns
          ELSE Append(frame.columns, col),
          [r \in 1..Len(frame.rows) |->
              [c \in Range(frame.columns) \cup {col} |->
                  IF c = col THEN values[r] ELSE frame.rows[r][c]]])

\* df.apply(lambda row: f(row), axis=1) where results[r] is f of row r: the
\* first exception f raises, if any, else the values.
ApplyRaises(results) == \E r \in DOMAIN results : results[r].exc # "none"
ApplyExc(results) ==
    results[CHOOSE r \in DOMAIN results :
                results[r].exc # "none" /\ \A j \in 1..(r - 1) : results[j].exc = "none"].exc

CtrColumn(frame) ==
    [r \in 1..Len(frame.rows) |->
        calculate_ctr(frame.rows[r]["link_clicks"], frame.rows[r]["impressions"])]

CpcColumn(frame) ==
    [r \in 1..Len(frame.rows) |->
        calculate_cpc(frame.rows[r]["amount_spent"], frame.rows[r]["link_clicks"])]

MultipleColumns ==
    Exc("ValueError", "Cannot set a DataFrame with multiple columns to the single column ctr")

\* The call's outcome: exc, the table returned (ret) and what the caller's
\* table holds afterwards (arg).  empty is apply_empty.
add_metrics_to_dataframe_in_place(d, empty) ==
    LET missing == NotIn(<<"amount_spent", "link_clicks", "impressions">>, Range(d.columns))
        ctrs == CtrColumn(d)
        cpcs == CpcColumn(d)
        out == SetColumn(SetColumn(d, "ctr", [r \in DOMAIN ctrs |-> ctrs[r].val]),
                         "cpc", [r \in DOMAIN cpcs |-> cpcs[r].val])
    IN  IF Len(missing) > 0
        THEN [exc |-> ExcMissing("KeyError", "Missing required columns", missing),
              ret |-> NoFrame, arg |-> d]
        ELSE IF Len(d.rows) = 0 /\ empty = "DataFrame"
        THEN [exc |-> MultipleColumns, ret |-> NoFrame, arg |-> d]
        ELSE IF ApplyRaises(ctrs)
        THEN [exc |-> Exc(ApplyExc(ctrs), "division by zero"), ret |-> NoFrame, arg |-> d]
        ELSE IF ApplyRaises(cpcs)
        THEN [exc |-> Exc(ApplyExc(cpcs), "division by zero"), ret |-> NoFrame,
              arg |-> SetColumn(d, "ctr", [r \in DOMAIN ctrs |-> ctrs[r].val])]
        ELSE [exc |-> NoExc, ret |-> out, arg |-> out]

add_metrics_to_dataframe_first_missing(d, empty) ==
    LET missing == NotIn_first_only(<<"amount_spent", "link_clicks", "impressions">>,
                                    Range(d.columns))
        ctrs == CtrColumn(d)
        with_ctr == SetColumn(d, "ctr", [r \in DOMAIN ctrs |-> ctrs[r].val])
        cpcs == CpcColumn(with_ctr)
    IN  IF Len(missing) > 0
        THEN [exc |-> ExcMissing("KeyError", "Missing required columns", missing),
              ret |-> NoFrame, arg |-> d]
        ELSE IF Len(d.rows) = 0 /\ empty = "DataFrame"
        THEN [exc |-> MultipleColumns, ret |-> NoFrame, arg |-> d]
        ELSE [exc |-> NoExc,
              ret |-> SetColumn(with_ctr, "cpc", [r \in DOMAIN cpcs |-> cpcs[r].val]),
              arg |-> d]

add_metrics_to_dataframe(d, empty) ==
    LET required_columns == <<"amount_spent", "link_clicks", "impressions">>
        missing == NotIn(required_columns, Range(d.columns))
        copy == d
        ctrs == CtrColumn(copy)
        with_ctr == SetColumn(copy, "ctr", [r \in DOMAIN ctrs |-> ctrs[r].val])
        cpcs == CpcColumn(with_ctr)
        with_cpc == SetColumn(with_ctr, "cpc", [r \in DOMAIN cpcs |-> cpcs[r].val])
    IN  IF Len(missing) > 0
        THEN [exc |-> ExcMissing("KeyError", "Missing required columns", missing),
              ret |-> NoFrame, arg |-> d]
        ELSE IF Len(d.rows) = 0 /\ empty = "DataFrame"
        THEN [exc |-> MultipleColumns, ret |-> NoFrame, arg |-> d]
        ELSE IF ApplyRaises(ctrs)
        THEN [exc |-> Exc(ApplyExc(ctrs), "division by zero"), ret |-> NoFrame, arg |-> d]
        ELSE IF ApplyRaises(cpcs)
        THEN [exc |-> Exc(ApplyExc(cpcs), "division by zero"), ret |-> NoFrame, arg |-> d]
        ELSE [exc |-> NoExc, ret |-> with_cpc, arg |-> d]

(***************************************************************************)
(* excel_formatter.py                                                      *)
(***************************************************************************)
HEADER_FILL == "1F4E79"
HIGH_CPC_FILL == "FFC7CE"
NO_FILL == "none"
ZAR_FORMAT == "R #,##0.00"
PERCENTAGE_FORMAT == "0.00%"
GENERAL_FORMAT == "General"

\* CPC_THRESHOLD = 20.00 as the module is loaded, which is also the value the
\* def statement of apply_conditional_formatting stores as the default of its
\* threshold parameter.
CPC_THRESHOLD_AT_IMPORT == 2000

DISPLAY_COLUMNS ==
    <<"Campaign Name", "Amount Spent (ZAR)", "Link Clicks", "Impressions", "CTR (%)",
      "CPC (ZAR)">>

\* A worksheet: cells[row][column], rows 1..max_row, columns 1..max_column.
\* A cell holding a number has data type "n", a cell holding text "s".
NewCell(v) ==
    [value |-> v, fill |-> NO_FILL, bold |-> FALSE, number_format |-> GENERAL_FORMAT,
     data_type |-> "n"]
StrCell(v) == [NewCell(v) EXCEPT !.data_type = "s"]
\* The columns that hold text (csv_reader's astype(str) column), by display
\* label and by internal key.
TEXT_LABELS == {"Campaign Name", "campaign_name"}
Worksheet(title, cells) ==
    [title |-> title, cells |-> cells, max_row |-> Len(cells),
     max_column |-> IF Len(cells) = 0 THEN 0 ELSE Len(cells[1])]

\* Lines 347-349: dataframe_to_rows(display_df, index=False, header=True) written
\* cell by cell: the labels in row 1, record k in row k + 1, by position.
WriteRows_no_header(title, display_df) ==
    Worksheet(title,
        [r \in 1..Len(display_df.rows) |->
            [c \in 1..Len(display_df.columns) |->
                IF display_df.columns[c] \in TEXT_LABELS
                THEN StrCell(display_df.rows[r][display_df.columns[c]])
                ELSE NewCell(display_df.rows[r][display_df.columns[c]])]])

WriteRows(title, display_df) ==
    Worksheet(title,
        [r \in 1..(Len(display_df.rows) + 1) |->
            [c \in 1..Len(display_df.columns) |->
                IF r = 1 THEN StrCell(display_df.columns[c])
                ELSE IF display_df.columns[c] \in TEXT_LABELS
                THEN StrCell(display_df.rows[r - 1][display_df.columns[c]])
                ELSE NewCell(display_df.rows[r - 1][display_df.columns[c]])]])

\* display_df.columns = [...]: the labels replaced by position.
SetColumns(frame, labels) ==
    Frame(labels,
          [r \in 1..Len(frame.rows) |->
              [c \in Range(labels) |-> frame.rows[r][frame.columns[IndexOf(labels, c)]]]])

apply_header_formatting(ws) ==
    [ws EXCEPT !.cells =
        [r \in 1..ws.max_row |->
            [c \in 1..ws.max_column |->
                IF r = 1 THEN [ws.cells[r][c] EXCEPT !.fill = HEADER_FILL, !.bold = TRUE]
                ELSE ws.cells[r][c]]]]

ApplyNumberFormat_with_header(ws, cols, d, format) ==
    [ws EXCEPT !.cells =
        [r \in 1..ws.max_row |->
            [c \in 1..ws.max_column |->
                IF c <= Len(d.columns) /\ d.columns[c] \in cols
                THEN [ws.cells[r][c] EXCEPT !.number_format = format]
                ELSE ws.cells[r][c]]]]

\* apply_currency_formatting / apply_percentage_formatting: rows 2..max_row of
\* the columns of d that are named in cols get the number format.
ApplyNumberFormat(ws, cols, d, format) ==
    [ws EXCEPT !.cells =
        [r \in 1..ws.max_row |->
            [c \in 1..ws.max_column |->
                IF r >= 2 /\ c <= Len(d.columns) /\ d.columns[c] \in cols
                THEN [ws.cells[r][c] EXCEPT !.number_format = format]
                ELSE ws.cells[r][c]]]]

apply_currency_formatting(ws, cols, d) == ApplyNumberFormat(ws, cols, d, ZAR_FORMAT)
apply_percentage_formatting(ws, cols, d) == ApplyNumberFormat(ws, cols, d, PERCENTAGE_FORMAT)

apply_conditional_formatting_ge(ws, cpc_column, d, threshold) ==
    IF cpc_column \notin Range(d.columns) THEN ws
    ELSE [ws EXCEPT !.cells =
            [r \in 1..ws.max_row |->
                [c \in 1..ws.max_column |->
                    IF r >= 2 /\ r - 1 <= Len(d.rows) /\ d.rows[r - 1][cpc_column] >= threshold
                    THEN [ws.cells[r][c] EXCEPT !.fill = HIGH_CPC_FILL]
                    ELSE ws.cells[r][c]]]]

apply_conditional_formatting_attribute(ws, cpc_column, d, threshold) ==
    IF cpc_column \notin Range(d.columns) THEN ws
    ELSE [ws EXCEPT !.cells =
            [r \in 1..ws.max_row |->
                [c \in 1..ws.max_column |->
                    IF r >= 2 /\ r - 1 <= Len(d.rows)
                       /\ d.rows[r - 1][cpc_column] > CPC_THRESHOLD
                    THEN [ws.cells[r][c] EXCEPT !.fill = HIGH_CPC_FILL]
                    ELSE ws.cells[r][c]]]]

\* Every cell of row k + 1 is filled when record k has cpc > threshold.
apply_conditional_formatting(ws, cpc_column, d, threshold) ==
    IF cpc_column \notin Range(d.columns) THEN ws
    ELSE [ws EXCEPT !.cells =
            [r \in 1..ws.max_row |->
                [c \in 1..ws.max_column |->
                    IF r >= 2 /\ r - 1 <= Len(d.rows) /\ d.rows[r - 1][cpc_column] > threshold
                    THEN [ws.cells[r][c] EXCEPT !.fill = HIGH_CPC_FILL]
                    ELSE ws.cells[r][c]]]]

\* datetime.now() formatted to the minute: the calendar day and the four
\* digits of %H%M.  The clock counts seconds from midnight of day 0.
DigitChar(n) ==
    CASE n = 0 -> "0" [] n = 1 -> "1" [] n = 2 -> "2" [] n = 3 -> "3" [] n = 4 -> "4"
      [] n = 5 -> "5" [] n = 6 -> "6" [] n = 7 -> "7" [] n = 8 -> "8" [] n = 9 -> "9"
Pad2(n) == <<DigitChar(n \div 10), DigitChar(n % 10)>>
strftime(clock) ==
    [date |-> clock \div 86400,
     hhmm |-> Pad2((clock % 86400) \div 3600) \o Pad2((clock % 3600) \div 60)]
NoStamp == [date |-> 0, hhmm |-> <<>>]

\* Series.sum()
RECURSIVE SumColumn(_, _)
SumColumn(rows, col) ==
    IF Len(rows) = 0 THEN 0
    ELSE rows[1][col] + SumColumn(Tail(rows), col)

\* f"{x:.2f}" of the fraction num/den (den > 0), as the number it shows.
Format2(num, den) == RoundHalfEven(num, den)

create_executive_summary_mean(d, stamp) ==
    LET total_spend == IF "amount_spent" \in Range(d.columns)
                       THEN SumColumn(d.rows, "amount_spent") ELSE 0
        total_impressions == IF "impressions" \in Range(d.columns)
                             THEN SumColumn(d.rows, "impressions") ELSE 0
        total_clicks == IF "link_clicks" \in Range(d.columns)
                        THEN SumColumn(d.rows, "link_clicks") ELSE 0
    IN  [title |-> "Executive Summary",
         caption |-> strftime(stamp),
         total_spend |-> total_spend,
         total_impressions |-> total_impressions,
         total_clicks |-> total_clicks,
         avg_cpc |-> IF Len(d.rows) > 0
                     THEN Format2(SumColumn(d.rows, "cpc"), Len(d.rows)) ELSE 0,
         overall_ctr |-> IF Len(d.rows) > 0
                         THEN Format2(SumColumn(d.rows, "ctr"), Len(d.rows)) ELSE 0]

\* The summary sheet: the caption's timestamp and the five values shown
\* (money and the rate in hundredths, as formatted to two decimals).
create_executive_summary(d, stamp) ==
    LET total_spend == IF "amount_spent" \in Range(d.columns)
                       THEN SumColumn(d.rows, "amount_spent") ELSE 0
        total_impressions == IF "impressions" \in Range(d.columns)
                             THEN SumColumn(d.rows, "impressions") ELSE 0
        total_clicks == IF "link_clicks" \in Range(d.columns)
                        THEN SumColumn(d.rows, "link_clicks") ELSE 0
    IN  [title |-> "Executive Summary",
         caption |-> strftime(stamp),
         total_spend |-> total_spend,
         total_impressions |-> total_impressions,
         total_clicks |-> total_clicks,
         avg_cpc |-> IF total_clicks > 0 THEN Format2(total_spend, total_clicks) ELSE 0,
         overall_ctr |-> IF total_impressions > 0
                         THEN Format2(total_clicks * 100 * 100, total_impressions) ELSE 0]

(***************************************************************************)
(* The output side of the filesystem.  A report file is named by its       *)
(* directory and its name, which carries the minute of its creation,       *)
(* AdMetric_Pro_Report_<YYYY-MM-DD>_<HHMM>.xlsx.                           *)
(***************************************************************************)
NoSheet == Worksheet("", <<>>)
NoSummary ==
    [title |-> "", caption |-> NoStamp, total_spend |-> 0, total_impressions |-> 0,
     total_clicks |-> 0, avg_cpc |-> 0, overall_ctr |-> 0]
NoWorkbook == [details |-> NoSheet, summary |-> NoSummary, sheetnames |-> <<>>, partial |-> FALSE]
PartialFile == [details |-> NoSheet, summary |-> NoSummary, sheetnames |-> <<>>, partial |-> TRUE]

NoName == [prefix |-> "", stamp |-> NoStamp, ext |-> ""]
NoPath == [dir |-> "", name |-> NoName, none |-> TRUE]
ReportPath(dir, name) == [dir |-> dir, name |-> name, none |-> FALSE]

EmptyDisk == [dirs |-> {}, files |-> {}]
\* Path.mkdir(parents=True, exist_ok=True)
Mkdir(dsk, dir) == [dsk EXCEPT !.dirs = @ \cup {dir}]
\* A file written at path: it replaces the file that had this path.
WriteFile(dsk, path, content) ==
    [dsk EXCEPT !.files =
        {f \in @ : f.path # path} \cup {[path |-> path, content |-> content]}]
FileAt(dsk, path) == {f \in dsk.files : f.path = path}

\* What the filesystem does to one generate_report call.
FsOutcomes == {"ok", "mkdir fails", "save fails", "save fails midway"}

generate_timestamped_filename_seconds(clock) ==
    [prefix |-> "AdMetric_Pro_Report_",
     stamp |-> [date |-> clock \div 86400,
                hhmm |-> Pad2((clock % 86400) \div 3600) \o Pad2((clock % 3600) \div 60)
                         \o Pad2(clock % 60)],
     ext |-> ".xlsx"]

\* generate_timestamped_filename():
\* f"AdMetric_Pro_Report_{datetime.now().strftime('%Y-%m-%d_%H%M')}.xlsx"
generate_timestamped_filename(clock) ==
    [prefix |-> "AdMetric_Pro_Report_", stamp |-> strftime(clock), ext |-> ".xlsx"]

\* load_workbook(path): the workbook as a reader gets it back.  A text cell
\* written with the empty string is stored without a value and reads as None.
None == <<"None">>
LoadCell(cell, r) ==
    IF r >= 2 /\ cell.data_type = "s" /\ cell.value = <<>>
    THEN [cell EXCEPT !.value = None, !.data_type = "n"]
    ELSE cell
load_workbook(content) ==
    [content EXCEPT !.details.cells =
        [r \in 1..content.details.max_row |->
            [c \in 1..content.details.max_column |->
                LoadCell(content.details.cells[r][c], r)]]]

\* df.copy(): a new table object, so that what is assigned to the copy does
\* not show in the table copied.  Table objects are named by the variable
\* that first holds them.
DataFrame_alias(obj, name) == obj
DataFrame_copy(obj, name) == name

\* except Exception as e: raise IOError(f"Failed to write Excel report: {e}")
WrapIOError_reraise(e) == e
WrapIOError(e) == Exc("IOError", e.msg)

\* The classes an `except IOError` clause catches: IOError is OSError, and
\* PermissionError and FileNotFoundError derive from it.
IsIOErrorClass(type) ==
    type \in {"IOError", "OSError", "PermissionError", "FileNotFoundError"}

\* generate_report(df, output_dir) run on disk dsk, with datetime.now() giving
\* name_time for the filename and caption_time for the summary caption, and the
\* filesystem behaving as fs.  The outcome: exc, the path returned (ret), the
\* disk afterwards and the caller's table afterwards (arg).
generate_report(d, output_dir, dsk, name_time, caption_time, fs) ==
    LET made == Mkdir(dsk, output_dir)
        file_path == ReportPath(output_dir, generate_timestamped_filename(name_time))
        display_ref == DataFrame_copy("df", "display_df")
        internal_ref == DataFrame_copy("df", "internal_df")
        \* the table objects once display_df.columns = [...] has run
        heap == [o \in {"df", "display_df", "internal_df"} |->
                    IF o = display_ref THEN SetColumns(d, DISPLAY_COLUMNS) ELSE d]
        display_df == heap[display_ref]
        written == WriteRows("Campaign Details", display_df)
        headed == apply_header_formatting(written)
        internal_df == heap[internal_ref]
        money == apply_currency_formatting(headed, {"amount_spent", "cpc"}, internal_df)
        rated == apply_percentage_formatting(money, {"ctr"}, internal_df)
        details_ws == apply_conditional_formatting(rated, "cpc", internal_df,
                                                   CPC_THRESHOLD_AT_IMPORT)
        summary_ws == create_executive_summary(heap["df"], caption_time)
        wb == [details |-> details_ws, summary |-> summary_ws,
               sheetnames |-> <<"Campaign Details", "Executive Summary">>,
               partial |-> FALSE]
    IN  IF fs = "mkdir fails" /\ output_dir \notin dsk.dirs
        THEN [exc |-> Exc("PermissionError", "mkdir"), ret |-> NoPath, disk |-> dsk,
              arg |-> d]
        ELSE IF Len(d.columns) # Len(DISPLAY_COLUMNS)
        THEN [exc |-> WrapIOError(Exc("ValueError", "Length mismatch")),
              ret |-> NoPath, disk |-> made, arg |-> d]
        ELSE IF fs = "save fails"
        THEN [exc |-> WrapIOError(Exc("PermissionError", "Permission denied")),
              ret |-> NoPath, disk |-> made, arg |-> heap["df"]]
        ELSE IF fs = "save fails midway"
        THEN [exc |-> WrapIOError(Exc("OSError", "No space left on device")),
              ret |-> NoPath, disk |-> WriteFile(made, file_path, PartialFile),
              arg |-> heap["df"]]
        ELSE [exc |-> NoExc, ret |-> file_path, disk |-> WriteFile(made, file_path, wb),
              arg |-> heap["df"]]

(***************************************************************************)
(* main.py                                                                 *)
(***************************************************************************)
NoExit == -1
NoArgs == [cpc_threshold |-> CPC_THRESHOLD_AT_IMPORT, output |-> "", verbose |-> FALSE]
Args(t, out, v) == [cpc_threshold |-> t, output |-> out, verbose |-> v]

ExitCodeFor_named_only(exc) ==
    CASE exc.type = "FileNotFoundError" -> 1
      [] exc.type = "ValueError" -> 1
      [] exc.type = "IOError" -> 1
      [] OTHER -> 0

\* The except clauses of main(): every exception class ends in return 1.
ExitCodeFor(exc) ==
    CASE exc.type = "none" -> 0
      [] exc.type = "FileNotFoundError" -> 1
      [] exc.type = "ValueError" -> 1
      [] exc.type \in {"IOError", "PermissionError"} -> 1
      [] OTHER -> 1

(***************************************************************************)
(* Input files.                                                            *)
(***************************************************************************)
OTHER_LABEL == "campaign name"
Labels == Range(REQUIRED_COLUMNS) \cup {OTHER_LABEL}

NameTexts == {<<"0", "0">>, <<"N", "U", "L", "L">>}
SpendTexts == {<<"1", "2", ".", "5", "0">>, <<"a", "b", "c">>}
ClickTexts == {<<"7">>, <<"i", "n", "f">>}
ImpressionTexts == {<<"4", "0">>, <<>>}

CellsFor(label) ==
    CASE label = "Campaign Name" -> NameTexts
      [] label = "Amount Spent (ZAR)" -> SpendTexts
      [] label = "Link Clicks" -> ClickTexts
      [] label = "Impressions" -> ImpressionTexts
      [] OTHER -> {<<"x">>}

\* Every arrangement of every non-empty choice of labels.
Headers ==
    UNION {{h \in [1..Cardinality(T) -> T] : Range(h) = T} : T \in (SUBSET Labels) \ {{}}}

RECURSIVE RowsFor(_)
RowsFor(h) ==
    IF Len(h) = 0 THEN {<<>>}
    ELSE {<<c>> \o r : c \in CellsFor(Head(h)), r \in RowsFor(Tail(h))}

EmptyContent == [kind |-> "empty", header |-> <<>>, rows |-> <<>>]
MalformedContent == [kind |-> "malformed", header |-> <<>>, rows |-> <<>>]
\* A path that exists and cannot be opened for reading (a directory, a file
\* without read permission).
UnreadableContent == [kind |-> "unreadable", header |-> <<>>, rows |-> <<>>]
Table(h, rows) == [kind |-> "table", header |-> h, rows |-> rows]
CSV == <<".", "c", "s", "v">>
Suffixes == {CSV, <<".", "C", "S", "V">>, <<".", "t", "x", "t">>}
SampleContents ==
    {EmptyContent, MalformedContent, UnreadableContent,
     Table(REQUIRED_COLUMNS, <<>>),
     Table(<<"Campaign Name", "Impressions">>, <<>>)}

NoContent == [kind |-> "none", header |-> <<>>, rows |-> <<>>]
InputFile(exists, suffix, content) ==
    [exists |-> exists, suffix |-> suffix, content |-> content]

\* Paths that do not exist, and existing files of every suffix with content
\* of every kind.
SampleFiles ==
    {InputFile(FALSE, s, NoContent) : s \in Suffixes}
    \cup {InputFile(TRUE, s, c) : s \in Suffixes, c \in SampleContents}

\* f is a .csv file holding a table: any header, up to MaxRows data rows.
IsTableFile(f) ==
    \E h \in Headers : \E n \in 0..MaxRows : \E rows \in [1..n -> RowsFor(h)] :
        f = InputFile(TRUE, CSV, Table(h, rows))

MetricsIdle ==
    /\ clicks = 0
    /\ impressions = 0
    /\ spend = 0
    /\ ctr = NotCalled
    /\ cpc = NotCalled

ReaderIdle ==
    /\ file = InputFile(FALSE, CSV, NoContent)
    /\ df = NoFrame
    /\ raised = NoExc

AugmentIdle ==
    /\ df_with_metrics = NoFrame
    /\ apply_empty = "Series"

ReportIdle ==
    /\ given_threshold = CPC_THRESHOLD_AT_IMPORT
    /\ workbook = NoWorkbook
    /\ calls = <<>>

MainIdle ==
    /\ CPC_THRESHOLD = CPC_THRESHOLD_AT_IMPORT
    /\ args = NoArgs
    /\ disk = EmptyDisk
    /\ now = 0
    /\ exit_code = NoExit
    /\ report_path = NoPath
    /\ log_level = "INFO"
    /\ invocation = 1

(***************************************************************************)
(* Input tables: every arrangement of every choice of the four internal    *)
(* columns, up to MaxRows records.                                         *)
(***************************************************************************)
Arrangements(S) ==
    UNION {{h \in [1..Cardinality(T) -> T] : Range(h) = T} : T \in SUBSET S}

ValuesFor(col) ==
    CASE col = "campaign_name" -> {<<"A">>}
      [] col = "amount_spent" -> {1250, 4002}
      [] col = "link_clicks" -> {-2, 0, 7}
      [] col = "impressions" -> {0, 40}

RECURSIVE RecordsOver(_)
RecordsOver(S) ==
    IF S = {} THEN {<<>>}
    ELSE LET c == CHOOSE x \in S : TRUE
         IN  {[x \in S |-> IF x = c THEN v ELSE rest[x]] :
                 v \in ValuesFor(c), rest \in RecordsOver(S \ {c})}

IsInputTable(t) ==
    \E cols \in Arrangements({"campaign_name", "amount_spent", "link_clicks", "impressions"}) :
        \E n \in 0..MaxRows : \E rows \in [1..n -> RecordsOver(Range(cols))] :
            t = Frame(cols, rows)

(***************************************************************************)
(* Tables with metrics, as generate_report and the formatter functions     *)
(* receive them: the six internal columns, up to MaxRows records.          *)
(***************************************************************************)
METRIC_COLUMNS ==
    <<"campaign_name", "amount_spent", "link_clicks", "impressions", "ctr", "cpc">>

Thresholds == {2000, 2001}

MetricRecords ==
    [campaign_name : {<<"A">>}, amount_spent : {1250, 4002}, impressions : {-40, 0, 40},
     link_clicks : {-2, 0, 2}, ctr : {500}, cpc : {2000, 2001, 2002}]

IsMetricsTable(t) ==
    \E n \in 0..MaxRows : \E rows \in [1..n -> MetricRecords] :
        t = Frame(METRIC_COLUMNS, rows)

(***************************************************************************)
(* SpecMetrics: a caller applies the two pure functions to arbitrary       *)
(* arguments.                                                              *)
(***************************************************************************)
InitMetrics ==
    /\ pc = "metrics"
    /\ clicks \in Counts
    /\ impressions \in Counts
    /\ spend \in Spends
    /\ ctr = NotCalled
    /\ cpc = NotCalled
    /\ ReaderIdle
    /\ AugmentIdle
    /\ ReportIdle
    /\ MainIdle

CallCtr ==
    /\ pc = "metrics"
    /\ ctr = NotCalled
    /\ ctr' = calculate_ctr(clicks, impressions)
    /\ UNCHANGED <<pc, clicks, impressions, spend, cpc, readerVars, augmentVars, reportVars, mainVars>>

CallCpc ==
    /\ pc = "metrics"
    /\ cpc = NotCalled
    /\ cpc' = calculate_cpc(spend, clicks)
    /\ UNCHANGED <<pc, clicks, impressions, spend, ctr, readerVars, augmentVars, reportVars, mainVars>>

NextMetrics == CallCtr \/ CallCpc

SpecMetrics == InitMetrics /\ [][NextMetrics]_vars

(***************************************************************************)
(* SpecReader: read_meta_csv applied to an arbitrary input file.           *)
(***************************************************************************)
InitReader ==
    /\ pc = "read"
    /\ (file \in SampleFiles \/ IsTableFile(file))
    /\ df = NoFrame
    /\ raised = NoExc
    /\ MetricsIdle
    /\ AugmentIdle
    /\ ReportIdle
    /\ MainIdle

ReadMetaCsv ==
    /\ pc = "read"
    /\ \E got \in {read_meta_csv(file)} :
           /\ df' = got.df
           /\ raised' = got.exc
    /\ pc' = "done"
    /\ UNCHANGED <<file, metricVars, augmentVars, reportVars, mainVars>>

NextReader == ReadMetaCsv

SpecReader == InitReader /\ [][NextReader]_vars

(***************************************************************************)
(* SpecAugment: add_metrics_to_dataframe applied to an arbitrary table.    *)
(* df is the caller's table, before and after the call.                    *)
(***************************************************************************)
InitAugment ==
    /\ pc = "augment"
    /\ IsInputTable(df)
    /\ apply_empty \in {"Series", "DataFrame"}
    /\ df_with_metrics = NoFrame
    /\ raised = NoExc
    /\ file = InputFile(FALSE, CSV, NoContent)
    /\ MetricsIdle
    /\ ReportIdle
    /\ MainIdle

AddMetrics ==
    /\ pc = "augment"
    /\ \E got \in {add_metrics_to_dataframe(df, apply_empty)} :
           /\ df_with_metrics' = got.ret
           /\ raised' = got.exc
           /\ df' = got.arg
    /\ pc' = "augmented"
    /\ UNCHANGED <<file, apply_empty, metricVars, reportVars, mainVars>>

\* The caller applies add_metrics_to_dataframe to the table it got back.
AddMetricsAgain ==
    /\ pc = "augmented"
    /\ raised = NoExc
    /\ \E got \in {add_metrics_to_dataframe(df_with_metrics, apply_empty)} :
           /\ df_with_metrics' = got.ret
           /\ raised' = got.exc
           /\ df' = got.arg
    /\ pc' = "augmented:again"
    /\ UNCHANGED <<file, apply_empty, metricVars, reportVars, mainVars>>

\* The caller writes the table it got back to a sheet and calls
\* apply_conditional_formatting(ws, "cpc", df, threshold) with a threshold of
\* its choice.
AugmentThresholds == {-1, 0, CPC_THRESHOLD_AT_IMPORT}

HighlightAugmented ==
    /\ pc = "augmented"
    /\ raised = NoExc
    /\ \E T \in AugmentThresholds :
        /\ given_threshold' = T
        /\ workbook' =
             [workbook EXCEPT !.details =
                 apply_conditional_formatting(
                     WriteRows("Campaign Details", df_with_metrics),
                     "cpc", df_with_metrics, T)]
    /\ pc' = "highlighted"
    /\ UNCHANGED <<calls, metricVars, readerVars, augmentVars, mainVars>>

NextAugment == AddMetrics \/ AddMetricsAgain \/ HighlightAugmented

SpecAugment == InitAugment /\ [][NextAugment]_vars

(***************************************************************************)
(* SpecReport: a caller builds the detail sheet of a table with metrics    *)
(* and highlights it for a threshold of its choice, or builds the summary  *)
(* sheet of the table.                                                     *)
(***************************************************************************)
InitReport ==
    /\ pc = "report"
    /\ IsMetricsTable(df_with_metrics)
    /\ apply_empty = "Series"
    /\ given_threshold = CPC_THRESHOLD_AT_IMPORT
    /\ workbook = NoWorkbook
    /\ calls = <<>>
    /\ MetricsIdle
    /\ ReaderIdle
    /\ MainIdle

ApplyConditionalFormatting ==
    /\ pc = "report"
    /\ \E T \in Thresholds :
        /\ given_threshold' = T
        /\ workbook' =
             [workbook EXCEPT !.details =
                 apply_conditional_formatting(
                     WriteRows("Campaign Details",
                               SetColumns(df_with_metrics, DISPLAY_COLUMNS)),
                     "cpc", df_with_metrics, T)]
    /\ pc' = "formatted"
    /\ UNCHANGED <<calls, metricVars, readerVars, augmentVars, mainVars>>

CreateExecutiveSummary ==
    /\ pc = "report"
    /\ workbook' = [workbook EXCEPT !.summary = create_executive_summary(df_with_metrics, now)]
    /\ pc' = "summarised"
    /\ UNCHANGED <<given_threshold, calls, metricVars, readerVars, augmentVars, mainVars>>

NextReport == ApplyConditionalFormatting \/ CreateExecutiveSummary

SpecReport == InitReport /\ [][NextReport]_vars

(***************************************************************************)
(* Spec: one run of main() on a command line, an input file and an output  *)
(* directory that exists or not: the three steps of the pipeline and the   *)
(* exit code.                                                              *)
(***************************************************************************)
MainSpendTexts == {<<"2", "0", ".", "0", "1">>, <<"3", "0", ".", "0", "0">>}
MainClickTexts == {<<"1">>, <<"0">>, <<"-", "3">>}
\* The export's columns in the order of REQUIRED_COLUMNS, or in another order
\* with a column the pipeline does not use.
MainHeaders ==
    {REQUIRED_COLUMNS,
     <<"Impressions", OTHER_LABEL, "Link Clicks", "Campaign Name", "Amount Spent (ZAR)">>}

MainCellsFor(label) ==
    CASE label = "Campaign Name" -> {<<"A">>}
      [] label = "Amount Spent (ZAR)" -> MainSpendTexts
      [] label = "Link Clicks" -> MainClickTexts
      [] label = "Impressions" -> {<<"4", "0">>}
      [] OTHER -> {<<"x">>}

RECURSIVE MainRows(_)
MainRows(h) ==
    IF Len(h) = 0 THEN {<<>>}
    ELSE {<<c>> \o r : c \in MainCellsFor(Head(h)), r \in MainRows(Tail(h))}

IsMainTableFile(f) ==
    \E h \in MainHeaders : \E n \in 1..MaxRows : \E rows \in [1..n -> MainRows(h)] :
        f = InputFile(TRUE, CSV, Table(h, rows))

CommandLines ==
    {Args(t, "output", v) : t \in {CPC_THRESHOLD_AT_IMPORT, 2500}, v \in BOOLEAN}

Init ==
    /\ pc = "main"
    /\ file \in SampleFiles \/ IsMainTableFile(file)
    /\ args \in CommandLines
    /\ disk \in {EmptyDisk, Mkdir(EmptyDisk, "output")}
    /\ apply_empty \in {"Series", "DataFrame"}
    /\ df = NoFrame
    /\ raised = NoExc
    /\ df_with_metrics = NoFrame
    /\ CPC_THRESHOLD = CPC_THRESHOLD_AT_IMPORT
    /\ now \in {0, 59}
    /\ exit_code = NoExit
    /\ report_path = NoPath
    /\ log_level = "INFO"
    /\ invocation = 1
    /\ MetricsIdle
    /\ ReportIdle

\* Lines 105-108: the verbosity flag sets the level of the root logger.
SetLevel(a, level) == IF a.verbose THEN "DEBUG" ELSE level

\* Step 1, lines 105-120, and the except clause that ends a failed read.
MainRead ==
    /\ pc = "main"
    /\ log_level' = SetLevel(args, log_level)
    /\ \E got \in {read_meta_csv(file)} :
        /\ df' = got.df
        /\ raised' = got.exc
        /\ exit_code' = IF got.exc = NoExc THEN NoExit ELSE ExitCodeFor(got.exc)
        /\ pc' = IF got.exc = NoExc THEN "main:metrics" ELSE "exited"
    /\ UNCHANGED <<file, metricVars, augmentVars, reportVars,
                   CPC_THRESHOLD, args, disk, now, report_path, invocation>>

MainMetrics_continue ==
    /\ pc = "main:metrics"
    /\ \E got \in {add_metrics_to_dataframe(df, apply_empty)} :
        /\ df' = got.arg
        /\ df_with_metrics' = got.ret
        /\ raised' = got.exc
        /\ exit_code' = NoExit
        /\ pc' = "main:report"
    /\ UNCHANGED <<file, apply_empty, metricVars, reportVars,
                   CPC_THRESHOLD, args, disk, now, report_path, log_level, invocation>>

\* Step 2, lines 122-124.
MainMetrics ==
    /\ pc = "main:metrics"
    /\ \E got \in {add_metrics_to_dataframe(df, apply_empty)} :
        /\ df' = got.arg
        /\ df_with_metrics' = got.ret
        /\ raised' = got.exc
        /\ exit_code' = IF got.exc = NoExc THEN NoExit ELSE ExitCodeFor(got.exc)
        /\ pc' = IF got.exc = NoExc THEN "main:report" ELSE "exited"
    /\ UNCHANGED <<file, apply_empty, metricVars, reportVars,
                   CPC_THRESHOLD, args, disk, now, report_path, log_level, invocation>>

MainReportFor_reraise(a) ==
    /\ pc = "main:report"
    /\ CPC_THRESHOLD' = IF a.cpc_threshold # CPC_THRESHOLD_AT_IMPORT
                        THEN a.cpc_threshold ELSE CPC_THRESHOLD
    /\ \E fs \in FsOutcomes, caption_time \in {now, now + 1} :
        \E got \in {generate_report(df_with_metrics, a.output, disk, now,
                                    caption_time, fs)} :
            /\ disk' = got.disk
            /\ report_path' = got.ret
            /\ raised' = got.exc
            /\ exit_code' = IF a.verbose /\ got.exc # NoExc THEN NoExit
                            ELSE ExitCodeFor(got.exc)
            /\ now' = caption_time
    /\ pc' = "exited"
    /\ UNCHANGED <<file, df, metricVars, augmentVars, reportVars, args, log_level,
                   invocation>>

\* Step 3, lines 138-150, for the parsed command line a: the module attribute
\* is set when the option differs from the name main imported, then
\* generate_report(df_with_metrics, a.output) runs; the clock may pass a
\* second between the filename and the summary caption.
MainReportFor(a) ==
    /\ pc = "main:report"
    /\ CPC_THRESHOLD' = IF a.cpc_threshold # CPC_THRESHOLD_AT_IMPORT
                        THEN a.cpc_threshold ELSE CPC_THRESHOLD
    /\ \E fs \in FsOutcomes, caption_time \in {now, now + 1} :
        \E got \in {generate_report(df_with_metrics, a.output, disk, now,
                                    caption_time, fs)} :
            /\ disk' = got.disk
            /\ report_path' = got.ret
            /\ raised' = got.exc
            /\ exit_code' = ExitCodeFor(got.exc)
            /\ now' = caption_time
    /\ pc' = "exited"
    /\ UNCHANGED <<file, df, metricVars, augmentVars, reportVars, args, log_level,
                   invocation>>

MainReport == MainReportFor(args)

Next == MainRead \/ MainMetrics \/ MainReport

Spec == Init /\ [][Next]_vars

(***************************************************************************)
(* SpecProcess: main() entered up to MaxRuns times in one process, each    *)
(* time with a command line and an export of its own.  What the            *)
(* process keeps between the invocations: the module attribute             *)
(* CPC_THRESHOLD, the level of the root logger, the disk and the clock.    *)
(***************************************************************************)
IsProcessFile(f) ==
    \/ f = InputFile(FALSE, CSV, NoContent)
    \/ \E rows \in [1..1 -> MainRows(REQUIRED_COLUMNS)] :
           f = InputFile(TRUE, CSV, Table(REQUIRED_COLUMNS, rows))

InitProcess ==
    /\ pc = "main"
    /\ IsProcessFile(file)
    /\ args \in CommandLines
    /\ disk \in {EmptyDisk, Mkdir(EmptyDisk, "output")}
    /\ apply_empty = "Series"
    /\ df = NoFrame
    /\ raised = NoExc
    /\ df_with_metrics = NoFrame
    /\ CPC_THRESHOLD = CPC_THRESHOLD_AT_IMPORT
    /\ now = 0
    /\ exit_code = NoExit
    /\ report_path = NoPath
    /\ log_level = "INFO"
    /\ invocation = 1
    /\ MetricsIdle
    /\ ReportIdle

\* main() is entered again: parse_arguments gives a new command line and the
\* locals of the previous invocation are gone.
MainAgain ==
    /\ pc = "exited"
    /\ invocation < MaxRuns
    /\ invocation' = invocation + 1
    /\ args' \in CommandLines
    /\ IsProcessFile(file')
    /\ df' = NoFrame
    /\ df_with_metrics' = NoFrame
    /\ raised' = NoExc
    /\ exit_code' = NoExit
    /\ report_path' = NoPath
    /\ pc' = "main"
    /\ UNCHANGED <<apply_empty, metricVars, reportVars, CPC_THRESHOLD, disk, now,
                   log_level>>

NextProcess == MainRead \/ MainMetrics \/ MainReport \/ MainAgain

SpecProcess == InitProcess /\ [][NextProcess]_vars

(***************************************************************************)
(* SpecGenerate: a caller invokes generate_report twice, on tables of its  *)
(* choice (df_with_metrics is the table passed, as the caller finds it     *)
(* after the call), the second time at once, a second, a minute, an hour or a day   *)
(* later, into the same directory or another one; the filesystem may fail  *)
(* each call.                                                              *)
(***************************************************************************)
GenerateRecords ==
    {[campaign_name |-> <<"A">>, amount_spent |-> 1250, link_clicks |-> 7,
      impressions |-> 40, ctr |-> 1750, cpc |-> 179],
     [campaign_name |-> <<"0", "0">>, amount_spent |-> 4002, link_clicks |-> 0,
      impressions |-> 35, ctr |-> 0, cpc |-> 0],
     [campaign_name |-> <<>>, amount_spent |-> 4002, link_clicks |-> 2,
      impressions |-> 0, ctr |-> 0, cpc |-> 2001]}

IsGenerateTable(t) ==
    \E n \in 0..MaxRows : \E rows \in [1..n -> GenerateRecords] :
        t = Frame(METRIC_COLUMNS, rows)

OtherTable ==
    Frame(METRIC_COLUMNS,
          <<[campaign_name |-> <<"N", "U", "L", "L">>, amount_spent |-> 5, link_clicks |-> 1,
             impressions |-> 1, ctr |-> 10000, cpc |-> 5]>>)

\* A table that is not a table with metrics: read_meta_csv's four columns.
NarrowTable ==
    Frame(<<"campaign_name", "amount_spent", "link_clicks", "impressions">>,
          <<[campaign_name |-> <<"A">>, amount_spent |-> 1250, link_clicks |-> 7,
             impressions |-> 40]>>)

InitGenerate ==
    /\ pc = "generate"
    /\ IsGenerateTable(df_with_metrics)
    /\ apply_empty = "Series"
    /\ disk \in {EmptyDisk, Mkdir(EmptyDisk, "output")}
    /\ now \in {0, 59}
    /\ calls = <<>>
    /\ CPC_THRESHOLD = CPC_THRESHOLD_AT_IMPORT
    /\ args = NoArgs
    /\ exit_code = NoExit
    /\ report_path = NoPath
    /\ log_level = "INFO"
    /\ invocation = 1
    /\ given_threshold = CPC_THRESHOLD_AT_IMPORT
    /\ workbook = NoWorkbook
    /\ MetricsIdle
    /\ ReaderIdle

GenerateReport ==
    /\ pc \in {"generate", "generate:again"}
    /\ \E start \in IF pc = "generate" THEN {now}
                    ELSE {now, now + 1, now + 60, now + 3600, now + 86400},
          output_dir \in IF pc = "generate" THEN {"output"} ELSE {"output", "archive"},
          fs \in FsOutcomes :
        \E caption_time \in {start, start + 1},
           t \in IF pc = "generate" THEN {df_with_metrics}
                 ELSE {df_with_metrics, OtherTable, NarrowTable} :
            /\ \E got \in {generate_report(t, output_dir, disk, start, caption_time, fs)} :
                /\ df_with_metrics' = got.arg
                /\ disk' = got.disk
                /\ report_path' = got.ret
                /\ raised' = got.exc
                /\ calls' = Append(calls, [df |-> t, output_dir |-> output_dir,
                                           at |-> start, ret |-> got.ret, exc |-> got.exc])
            /\ now' = caption_time
    /\ pc' = IF pc = "generate" THEN "generate:again" ELSE "generated"
    /\ UNCHANGED <<file, df, apply_empty, metricVars, given_threshold, workbook,
                   CPC_THRESHOLD, args, exit_code, log_level, invocation>>

NextGenerate == GenerateReport

SpecGenerate == InitGenerate /\ [][NextGenerate]_vars

(***************************************************************************)
(* C1: calculate_ctr returns 0.0 when impressions <= 0 (negative like      *)
(* zero), otherwise the hundredth nearest to clicks / impressions * 100,   *)
(* and it never raises a division error.                                   *)
(***************************************************************************)
C1_CtrContract ==
    ctr # NotCalled =>
        /\ ctr.exc = "none"
        /\ impressions <= 0 => ctr.val = 0
        /\ impressions > 0 =>
               2 * Abs(ctr.val * impressions - clicks * 10000) <= impressions

C1_Witness ==
    /\ ctr # NotCalled
    /\ impressions < 0
    /\ clicks > 0

(***************************************************************************)
(* C2: calculate_cpc returns 0.0 when clicks <= 0 (negative like zero),    *)
(* otherwise the hundredth nearest to spend / clicks, and it never raises  *)
(* a division error.                                                       *)
(***************************************************************************)
C2_CpcContract ==
    cpc # NotCalled =>
        /\ cpc.exc = "none"
        /\ clicks <= 0 => cpc.val = 0
        /\ clicks > 0 => 2 * Abs(cpc.val * clicks - spend) <= clicks

C2_Witness ==
    /\ cpc # NotCalled
    /\ clicks < 0
    /\ spend > 0

(***************************************************************************)
(* Reading the source file of a finished read_meta_csv call.               *)
(***************************************************************************)
ReadDone == pc = "done"
TableWasRead ==
    /\ ReadDone
    /\ file.exists
    /\ file.suffix \in {CSV, <<".", "C", "S", "V">>}
    /\ file.content.kind = "table"

\* The required labels with no exact match in the source header.
AbsentLabels ==
    {c \in {"Campaign Name", "Amount Spent (ZAR)", "Link Clicks", "Impressions"} :
        \A k \in 1..Len(file.content.header) : file.content.header[k] # c}

\* The text of row r under the column labelled c in the source file.
SourceCell(r, c) ==
    file.content.rows[r][CHOOSE k \in 1..Len(file.content.header) :
                             file.content.header[k] = c]

(***************************************************************************)
(* C7: read_meta_csv fails with a validation error whenever a required     *)
(* header field has no exact, case-sensitive match in the source header,   *)
(* whatever the column order and the extra columns, and the error names    *)
(* every missing field; with all four present it raises no such error.     *)
(***************************************************************************)
C7_MissingFieldsNamed ==
    TableWasRead =>
        /\ AbsentLabels # {} =>
               /\ raised.type = "ValueError"
               /\ raised.msg = "Missing required columns in CSV"
               /\ Range(raised.missing) = AbsentLabels
               /\ Len(raised.missing) = Cardinality(AbsentLabels)
               /\ df = NoFrame
        /\ AbsentLabels = {} => raised.msg # "Missing required columns in CSV"

C7_Witness ==
    /\ TableWasRead
    /\ Cardinality(AbsentLabels) = 2
    /\ "Campaign Name" \in AbsentLabels
    /\ file.content.header[1] = "campaign name"
    /\ raised.type = "ValueError"

(***************************************************************************)
(* C8: once the required fields are located, ingestion never fails because *)
(* of the content of a data cell, and every record of the returned table   *)
(* has its four fields present and typed.                                  *)
(***************************************************************************)
C8_CoercionNeverFails ==
    (TableWasRead /\ AbsentLabels = {}) =>
        /\ raised = NoExc
        /\ ~df.none
        /\ \A r \in 1..Len(df.rows) :
               /\ DOMAIN df.rows[r] =
                      {"campaign_name", "amount_spent", "link_clicks", "impressions"}
               /\ df.rows[r].amount_spent \in Int
               /\ df.rows[r].link_clicks \in Int
               /\ df.rows[r].impressions \in Int

(***************************************************************************)
(* C9: every table read_meta_csv returns has exactly the four fields       *)
(* campaign_name, amount_spent, link_clicks, impressions, in that order,   *)
(* whatever the order of the source columns and the extra columns.         *)
(***************************************************************************)
C9_FixedColumns ==
    (ReadDone /\ raised = NoExc) =>
        /\ ~df.none
        /\ df.columns = <<"campaign_name", "amount_spent", "link_clicks", "impressions">>
        /\ \A r \in 1..Len(df.rows) :
               DOMAIN df.rows[r] =
                   {"campaign_name", "amount_spent", "link_clicks", "impressions"}

C9_Witness ==
    /\ ReadDone
    /\ raised = NoExc
    /\ file.content.header =
           <<"Impressions", "campaign name", "Link Clicks", "Campaign Name",
             "Amount Spent (ZAR)">>
    /\ Len(df.rows) = 2

(***************************************************************************)
(* C10: read_meta_csv returns one record per source data row, in source    *)
(* order; a record's name is the source text verbatim, also when it looks  *)
(* numeric ("00") or null-like ("NULL"), and a well-formed numeric cell    *)
(* keeps its value.                                                        *)
(***************************************************************************)
C10_RowsPreserved ==
    (ReadDone /\ raised = NoExc) =>
        /\ Len(df.rows) = Len(file.content.rows)
        /\ \A r \in 1..Len(df.rows) :
               /\ df.rows[r].campaign_name = SourceCell(r, "Campaign Name")
               /\ SourceCell(r, "Amount Spent (ZAR)") = <<"1", "2", ".", "5", "0">>
                      => df.rows[r].amount_spent = 1250
               /\ SourceCell(r, "Link Clicks") = <<"7">> => df.rows[r].link_clicks = 7
               /\ SourceCell(r, "Impressions") = <<"4", "0">>
                      => df.rows[r].impressions = 40

C10_Witness ==
    /\ ReadDone
    /\ raised = NoExc
    /\ Len(df.rows) = 2
    /\ df.rows[1].campaign_name = <<"N", "U", "L", "L">>
    /\ df.rows[2].campaign_name = <<"0", "0">>
    /\ df.rows[1].amount_spent = 0
    /\ df.rows[2].amount_spent = 1250
    /\ file.content.header[1] # "Campaign Name"

(***************************************************************************)
(* C6: when add_metrics_to_dataframe returns, the new table has the same   *)
(* number of records in the same order, every original field of every      *)
(* record unchanged, and ctr and cpc appended; the caller's table is the   *)
(* same afterwards (same columns, no ctr/cpc, same values), also when the  *)
(* call fails.                                                             *)
(***************************************************************************)
C6_AugmentFrame ==
    [][AddMetrics =>
          /\ df' = df
          /\ raised' = NoExc =>
                 /\ ~df_with_metrics'.none
                 /\ Len(df_with_metrics'.rows) = Len(df.rows)
                 /\ df_with_metrics'.columns = df.columns \o <<"ctr", "cpc">>
                 /\ \A r \in 1..Len(df.rows) : \A c \in Range(df.columns) :
                        df_with_metrics'.rows[r][c] = df.rows[r][c]]_vars

C6_Witness ==
    /\ pc = "augmented"
    /\ raised = NoExc
    /\ Len(df.rows) = 2
    /\ df.rows[1] # df.rows[2]
    /\ df.columns[1] = "impressions"
    /\ "ctr" \notin Range(df.columns)
    /\ df_with_metrics.rows[2].ctr # 0

(***************************************************************************)
(* C3: in the detail sheet built for a table and a threshold T, every cell *)
(* of a record's row carries the light-red fill if the record's cpc is     *)
(* strictly greater than T, and no cell of the row carries a fill          *)
(* otherwise (cpc equal to T included).                                    *)
(***************************************************************************)
C3_HighlightStrictlyAbove ==
    pc = "formatted" =>
        \A k \in 1..Len(df_with_metrics.rows) :
            \A c \in 1..Len(METRIC_COLUMNS) :
                workbook.details.cells[k + 1][c].fill =
                    IF df_with_metrics.rows[k].cpc > given_threshold
                    THEN HIGH_CPC_FILL ELSE NO_FILL

C3_Witness ==
    /\ pc = "formatted"
    /\ Len(df_with_metrics.rows) = 2
    /\ df_with_metrics.rows[1].cpc = given_threshold
    /\ df_with_metrics.rows[2].cpc = given_threshold + 1
    /\ workbook.details.cells[2][1].fill = NO_FILL
    /\ workbook.details.cells[3][6].fill = HIGH_CPC_FILL

(***************************************************************************)
(* C5: the summary of a non-empty table.                                   *)
(***************************************************************************)
RECURSIVE Total(_, _, _)
Total(t, col, n) == IF n = 0 THEN 0 ELSE Total(t, col, n - 1) + t.rows[n][col]

NearestHundredth(r, num, den) == 2 * Abs(r * den - num) <= Abs(den)

SummaryTotals ==
    /\ workbook.summary.total_spend =
           Total(df_with_metrics, "amount_spent", Len(df_with_metrics.rows))
    /\ workbook.summary.total_impressions =
           Total(df_with_metrics, "impressions", Len(df_with_metrics.rows))
    /\ workbook.summary.total_clicks =
           Total(df_with_metrics, "link_clicks", Len(df_with_metrics.rows))

Summarised == pc = "summarised" /\ Len(df_with_metrics.rows) > 0

C5_NegativeTotalWitness ==
    /\ Summarised
    /\ workbook.summary.total_clicks < 0
    /\ workbook.summary.avg_cpc = 0

(***************************************************************************)
(* C4: when main() is run with a highlight threshold T other than 20.00    *)
(* and writes its report, exactly the records whose cpc is greater than T  *)
(* are highlighted in the detail sheet of that report.                     *)
(***************************************************************************)
ReportWritten ==
    /\ pc = "exited"
    /\ exit_code = 0
    /\ FileAt(disk, report_path) # {}

C4_ConfiguredThresholdUsed ==
    (ReportWritten /\ args.cpc_threshold # CPC_THRESHOLD_AT_IMPORT) =>
        \A f \in FileAt(disk, report_path) :
            \A k \in 1..Len(df_with_metrics.rows) :
                \A c \in 1..f.content.details.max_column :
                    (f.content.details.cells[k + 1][c].fill = HIGH_CPC_FILL)
                        <=> (df_with_metrics.rows[k].cpc > args.cpc_threshold)

\* The run that refutes it: threshold 25.00, a record with cpc 20.01 filled.
C4_Refuted ==
    /\ ReportWritten
    /\ args.cpc_threshold = 2500
    /\ CPC_THRESHOLD = 2500
    /\ Len(df_with_metrics.rows) = 1
    /\ df_with_metrics.rows[1].cpc = 2001
    /\ \A f \in FileAt(disk, report_path) :
           f.content.details.cells[2][1].fill = HIGH_CPC_FILL

(***************************************************************************)
(* C11: calculate_ctr and calculate_cpc return a value >= 0.0 for every    *)
(* input, the inputs that trigger the zero-or-negative guard included.     *)
(***************************************************************************)
C11_MetricsNonNegative ==
    /\ ctr # NotCalled => (ctr.exc = "none" /\ ctr.val >= 0)
    /\ cpc # NotCalled => (cpc.exc = "none" /\ cpc.val >= 0)

\* A call that refutes it: negative clicks over positive impressions.
C11_NegativeCtr ==
    /\ ctr # NotCalled
    /\ clicks = -2
    /\ impressions = 4
    /\ ctr.val = -5000

(***************************************************************************)
(* C13: add_metrics_to_dataframe on a table lacking any of amount_spent,   *)
(* link_clicks or impressions raises KeyError naming every missing field,  *)
(* returns no table and leaves the caller's table as it was; a table with  *)
(* the three fields never gets this error.                                 *)
(***************************************************************************)
MissingMetricInputs(t) ==
    {c \in {"amount_spent", "link_clicks", "impressions"} :
        \A k \in 1..Len(t.columns) : t.columns[k] # c}

C13_MissingInputsNamed ==
    [][AddMetrics =>
          /\ MissingMetricInputs(df) # {} =>
                 /\ raised'.type = "KeyError"
                 /\ raised'.msg = "Missing required columns"
                 /\ Range(raised'.missing) = MissingMetricInputs(df)
                 /\ Len(raised'.missing) = Cardinality(MissingMetricInputs(df))
                 /\ df_with_metrics' = NoFrame
                 /\ df' = df
          /\ MissingMetricInputs(df) = {} => raised'.type # "KeyError"]_vars

C13_Witness ==
    /\ pc = "augmented"
    /\ raised.type = "KeyError"
    /\ Len(raised.missing) = 2
    /\ Len(df.rows) = 2
    /\ Range(df.columns) = {"campaign_name", "link_clicks"}
    /\ df_with_metrics = NoFrame

(***************************************************************************)
(* C19: each cause of a failed read has its own error: a path that does    *)
(* not exist gives FileNotFoundError; an existing path whose extension is  *)
(* not .csv in any letter case gives the "Expected CSV file" ValueError; a *)
(* .csv file without any content gives the "CSV file is empty" ValueError; *)
(* a header lacking required fields gives the "Missing required columns"   *)
(* ValueError; and no other cause gives any of these four errors.          *)
(***************************************************************************)
CsvSuffix == file.suffix \in {<<".", "c", "s", "v">>, <<".", "C", "S", "V">>}

C19_DistinctReadErrors ==
    ReadDone =>
        /\ (raised.type = "FileNotFoundError") <=> ~file.exists
        /\ (raised.type = "ValueError" /\ raised.msg = "Expected CSV file")
               <=> (file.exists /\ ~CsvSuffix)
        /\ (raised.type = "ValueError" /\ raised.msg = "CSV file is empty")
               <=> (file.exists /\ CsvSuffix /\ file.content.kind = "empty")
        /\ (raised.type = "ValueError" /\ raised.msg = "Missing required columns in CSV")
               <=> (TableWasRead /\ AbsentLabels # {})

C19_Witness ==
    /\ ReadDone
    /\ file.exists
    /\ file.suffix = <<".", "C", "S", "V">>
    /\ file.content.kind = "empty"
    /\ raised.msg = "CSV file is empty"

(***************************************************************************)
(* C12: every record of a table returned by ingestion has spend >= 0,      *)
(* clicks >= 0 and impressions >= 0, whatever the numeric cells hold.      *)
(***************************************************************************)
C12_RecordsNonNegative ==
    (pc \in {"main:metrics", "main:report", "exited"} /\ ~df.none) =>
        \A r \in 1..Len(df.rows) :
            /\ df.rows[r].amount_spent >= 0
            /\ df.rows[r].link_clicks >= 0
            /\ df.rows[r].impressions >= 0

\* A read that refutes it: the Link Clicks cell -3 is kept as -3.
C12_NegativeClicksRead ==
    /\ pc = "main:metrics"
    /\ Len(file.content.rows) = 1
    /\ file.content.rows[1][3] = <<"-", "3">>
    /\ df.rows[1].link_clicks = -3

(***************************************************************************)
(* C16: one run of main() goes through read, metrics, report in this       *)
(* order, each at most once; a stage that fails ends the run (no retry,    *)
(* no later stage), nothing happens after the exit, and the read and       *)
(* metrics stages leave the filesystem as it was, failed or not.           *)
(***************************************************************************)
C16_StagesInOrder ==
    [][/\ <<pc, pc'>> \in {<<"main", "main:metrics">>, <<"main", "exited">>,
                           <<"main:metrics", "main:report">>,
                           <<"main:metrics", "exited">>,
                           <<"main:report", "exited">>}
       /\ raised' # NoExc => pc' = "exited"
       /\ pc \in {"main", "main:metrics"} => (disk' = disk /\ report_path' = NoPath)
       /\ pc = "main" => df_with_metrics' = NoFrame]_vars

C16_Witness ==
    /\ pc = "exited"
    /\ ~df.none
    /\ df_with_metrics.none
    /\ raised.type = "ValueError"
    /\ disk = EmptyDisk
    /\ exit_code = 1

(***************************************************************************)
(* C17: the exit code of main().                                           *)
(***************************************************************************)
Exited == pc = "exited"

\* The three failures the claim names: not found, validation, and a failure
\* of the report stage.
NamedFailure ==
    \/ raised.type = "FileNotFoundError"
    \/ raised.type = "ValueError"
    \/ (raised # NoExc /\ ~df_with_metrics.none)

\* C17 as stated: main returns 1 for file-not-found, validation failure and
\* write failure, and 0 for every other outcome.
C17_ExitCodes_AsStated ==
    Exited => exit_code = (IF NamedFailure THEN 1 ELSE 0)

\* C17, amended: main returns 0 exactly when the three stages succeeded and
\* the report was written, and 1 for every exception raised inside the
\* pipeline, the named three and any other (such as an input path that
\* exists and cannot be read); it always returns.
C17_ExitCodes ==
    Exited =>
        /\ exit_code \in {0, 1}
        /\ exit_code = 0 <=> raised = NoExc
        /\ exit_code = 0 => (FileAt(disk, report_path) # {} /\ ~df_with_metrics.none)

C17_Witness ==
    /\ Exited
    /\ file.content.kind = "unreadable"
    /\ raised.type = "PermissionError"
    /\ exit_code = 1

(***************************************************************************)
(* C18: when the input CSV has the four required header fields and no     *)
(* data rows, main() writes no report and returns 1.                       *)
(***************************************************************************)
HeadersOnly ==
    /\ file.exists
    /\ CsvSuffix
    /\ file.content.kind = "table"
    /\ AbsentLabels = {}
    /\ Len(file.content.rows) = 0

C18_HeadersOnlyFails ==
    (Exited /\ HeadersOnly) => (exit_code = 1 /\ disk.files = {})

\* A run that refutes it: apply() gives a Series and the report is written.
C18_HeadersOnlyReported ==
    /\ Exited
    /\ HeadersOnly
    /\ apply_empty = "Series"
    /\ exit_code = 0
    /\ disk.files # {}

(***************************************************************************)
(* C14: the detail sheet read back from a written report.                  *)
(***************************************************************************)
ReportReturned ==
    /\ pc \in {"generate:again", "generated"}
    /\ raised = NoExc
    /\ FileAt(disk, report_path) # {}

\* The detail sheet, read back, has the header row and then one row per
\* record of the table in table order, with the record's click count in
\* column 3 and its impression count in column 4.
DetailRowsReadBack(ws) ==
    /\ ws.max_row = Len(df_with_metrics.rows) + 1
    /\ \A c \in 1..6 : ws.cells[1][c].value = DISPLAY_COLUMNS[c]
    /\ \A k \in 1..Len(df_with_metrics.rows) :
           /\ ws.cells[k + 1][3].value = df_with_metrics.rows[k].link_clicks
           /\ ws.cells[k + 1][4].value = df_with_metrics.rows[k].impressions

\* C14 as stated: writing the report of any table with metrics and reading it
\* back gives one header row followed by one row per record in table order,
\* and row k+1 holds the name, click count and impression count of record k.
C14_RoundTrip_AsStated ==
    ReportReturned =>
        \A f \in FileAt(disk, report_path) :
            LET ws == load_workbook(f.content).details
            IN  /\ DetailRowsReadBack(ws)
                /\ \A k \in 1..Len(df_with_metrics.rows) :
                       ws.cells[k + 1][1].value = df_with_metrics.rows[k].campaign_name

\* C14, amended: the same, where the name read back is the record's name for
\* every record whose name is not empty; the empty name reads back as a cell
\* without a value.
C14_RoundTrip ==
    ReportReturned =>
        \A f \in FileAt(disk, report_path) :
            LET ws == load_workbook(f.content).details
            IN  /\ DetailRowsReadBack(ws)
                /\ \A k \in 1..Len(df_with_metrics.rows) :
                       ws.cells[k + 1][1].value =
                           IF Len(df_with_metrics.rows[k].campaign_name) > 0
                           THEN df_with_metrics.rows[k].campaign_name
                           ELSE None

C14_Witness ==
    /\ ReportReturned
    /\ pc = "generate:again"
    /\ Len(df_with_metrics.rows) = 2
    /\ df_with_metrics.rows[1].campaign_name = <<"0", "0">>
    /\ df_with_metrics.rows[2].campaign_name = <<"A">>
    /\ \A f \in FileAt(disk, report_path) :
           /\ load_workbook(f.content).details.cells[2][1].value = <<"0", "0">>
           /\ load_workbook(f.content).details.cells[3][3].value = 7

(***************************************************************************)
(* C15: a generate_report call either returns and the file at the path it  *)
(* returned holds exactly the sheets "Campaign Details" and "Executive     *)
(* Summary", both populated, or fails and leaves the files of the disk as  *)
(* they were (no new file, no partially written one).                      *)
(***************************************************************************)
C15_AllOrNothing ==
    [][GenerateReport =>
          IF raised' = NoExc
          THEN \E f \in disk'.files :
                   /\ f.path = report_path'
                   /\ ~f.content.partial
                   /\ f.content.sheetnames = <<"Campaign Details", "Executive Summary">>
                   /\ f.content.details.max_row = Len(df_with_metrics'.rows) + 1
                   /\ f.content.summary.title = "Executive Summary"
          ELSE disk'.files = disk.files]_vars

\* A call that refutes it: the save fails midway and leaves a partial file.
C15_PartialFileLeft ==
    /\ pc = "generate:again"
    /\ raised.type = "IOError"
    /\ \E f \in disk.files : f.content.partial

(***************************************************************************)
(* C20: the report filename is AdMetric_Pro_Report_<day>_<HHMM>.xlsx of    *)
(* the instant of the call, so two calls return different filenames        *)
(* exactly when their instants lie in different minutes; after two         *)
(* successful calls in one minute into the same directory there is a       *)
(* single file, and it holds the later call's report.                      *)
(***************************************************************************)
BothReturned ==
    /\ pc = "generated"
    /\ calls[1].exc = NoExc
    /\ calls[2].exc = NoExc

SameMinute == calls[1].at \div 60 = calls[2].at \div 60

C20_FilenamePerMinute ==
    BothReturned =>
        /\ calls[1].ret.name.prefix = "AdMetric_Pro_Report_"
        /\ calls[1].ret.name.ext = ".xlsx"
        /\ (calls[1].ret.name = calls[2].ret.name) <=> SameMinute
        /\ (SameMinute /\ calls[1].output_dir = calls[2].output_dir) =>
               /\ calls[1].ret = calls[2].ret
               /\ Cardinality(disk.files) = 1
               /\ \A f \in disk.files :
                      /\ f.path = calls[2].ret
                      /\ f.content.details.max_row = Len(calls[2].df.rows) + 1
                      /\ \A k \in 1..Len(calls[2].df.rows) :
                             f.content.details.cells[k + 1][1].value =
                                 calls[2].df.rows[k].campaign_name

C20_Witness ==
    /\ BothReturned
    /\ calls[1].at = 0
    /\ calls[2].at = 1
    /\ calls[1].output_dir = calls[2].output_dir
    /\ calls[1].df # calls[2].df
    /\ Len(calls[1].df.rows) = 2
    /\ Cardinality(disk.files) = 1

\* One second apart and in different minutes: two files.
C20_AcrossTheMinute ==
    /\ BothReturned
    /\ calls[1].at = 59
    /\ calls[2].at = 60
    /\ calls[1].output_dir = calls[2].output_dir
    /\ Cardinality(disk.files) = 2

(***************************************************************************)
(* C24: read_meta_csv reports the first precondition that fails, in the    *)
(* order existence, extension, empty or malformed content, required        *)
(* fields: a path that does not exist is not-found whatever its extension, *)
(* an existing file with another extension is unsupported-format whatever  *)
(* it holds, and content is judged only for .csv files.                    *)
(***************************************************************************)
FirstFailedCheck ==
    IF ~file.exists THEN "Meta Ads CSV file not found"
    ELSE IF ~CsvSuffix THEN "Expected CSV file"
    ELSE IF file.content.kind = "empty" THEN "CSV file is empty"
    ELSE IF file.content.kind = "malformed" THEN "Invalid CSV format"
    ELSE IF file.content.kind = "table" /\ AbsentLabels # {}
    THEN "Missing required columns in CSV"
    ELSE "none of these"

C24_FirstFailureReported ==
    ReadDone =>
        /\ FirstFailedCheck # "none of these" =>
               (raised.msg = FirstFailedCheck /\ df = NoFrame)
        /\ FirstFailedCheck = "none of these" =>
               raised.msg \notin {"Meta Ads CSV file not found", "Expected CSV file",
                                  "CSV file is empty", "Invalid CSV format",
                                  "Missing required columns in CSV"}
        /\ raised.msg # "Missing required columns in CSV" => raised.missing = <<>>

C24_Witness ==
    /\ ReadDone
    /\ file.exists
    /\ file.suffix = <<".", "t", "x", "t">>
    /\ file.content.kind = "empty"
    /\ raised.msg = "Expected CSV file"

\* A path that does not exist and does not end in .csv: not-found.
C24_MissingTxt ==
    /\ ReadDone
    /\ ~file.exists
    /\ file.suffix = <<".", "t", "x", "t">>
    /\ raised.type = "FileNotFoundError"

(***************************************************************************)
(* C23: in the detail sheet of a written report every data row has the     *)
(* currency format on its spend and cost-per-click cells (columns 2 and 6) *)
(* and the two-decimal percentage format on its rate cell (column 5); the  *)
(* header row and the name, clicks and impressions cells (columns 1, 3, 4) *)
(* keep the default format.                                                *)
(***************************************************************************)
C23_NumberFormats ==
    ReportReturned =>
        \A f \in FileAt(disk, report_path) :
            LET ws == f.content.details
            IN  /\ ws.max_row = Len(df_with_metrics.rows) + 1
                /\ \A c \in 1..ws.max_column :
                       ws.cells[1][c].number_format = GENERAL_FORMAT
                /\ \A r \in 2..ws.max_row :
                       /\ ws.cells[r][2].number_format = ZAR_FORMAT
                       /\ ws.cells[r][6].number_format = ZAR_FORMAT
                       /\ ws.cells[r][5].number_format = PERCENTAGE_FORMAT
                       /\ \A c \in {1, 3, 4} :
                              ws.cells[r][c].number_format = GENERAL_FORMAT

C23_Witness ==
    /\ ReportReturned
    /\ Len(df_with_metrics.rows) = MaxRows
    /\ \E f \in FileAt(disk, report_path) :
           f.content.details.cells[MaxRows + 1][6].number_format = ZAR_FORMAT

(***************************************************************************)
(* C26: the timestamp in the summary caption and the timestamp in the      *)
(* report's filename denote the same minute.                               *)
(***************************************************************************)
C26_CaptionIsFilenameMinute ==
    ReportReturned =>
        \A f \in FileAt(disk, report_path) :
            f.content.summary.caption = report_path.name.stamp

\* A report whose filename was stamped in the last second of a minute and
\* whose caption was stamped in the next minute.
C26_MinutesApart ==
    /\ ReportReturned
    /\ \E f \in FileAt(disk, report_path) :
           f.content.summary.caption # report_path.name.stamp

(***************************************************************************)
(* C21: generate_report leaves the table it is given as it was, whether it *)
(* returns or raises: same columns (the internal keys), same records, same *)
(* values.                                                                 *)
(***************************************************************************)
LastCall == calls[Len(calls)]

C21_InputTableUnchanged ==
    calls # <<>> =>
        /\ df_with_metrics = LastCall.df
        /\ Len(df_with_metrics.columns) = 6 => df_with_metrics.columns = METRIC_COLUMNS

C21_Witness ==
    /\ calls # <<>>
    /\ LastCall.exc = WrapIOError(Exc("PermissionError", "Permission denied"))
    /\ Len(LastCall.df.rows) = MaxRows
    /\ LastCall.df.columns = METRIC_COLUMNS
    /\ df_with_metrics = LastCall.df

\* The same after a call that wrote its report.
C21_AfterSuccess ==
    /\ ReportReturned
    /\ Len(LastCall.df.rows) = MaxRows
    /\ df_with_metrics.columns = METRIC_COLUMNS

(***************************************************************************)
(* C30: whatever makes generate_report fail, the error its caller gets is  *)
(* of the IOError class: the directory that cannot be made, the file that  *)
(* cannot be saved, and also a table that has not the six columns.         *)
(***************************************************************************)
C30_OnlyIOErrorEscapes ==
    \A k \in 1..Len(calls) :
        calls[k].exc # NoExc =>
            /\ IsIOErrorClass(calls[k].exc.type)
            /\ calls[k].ret = NoPath

C30_Witness ==
    /\ calls # <<>>
    /\ LastCall.df = NarrowTable
    /\ LastCall.exc.type = "IOError"
    /\ LastCall.exc.msg = "Length mismatch"

(***************************************************************************)
(* C28: a record with clicks <= 0 gets cpc 0.0 whatever its spend, and no  *)
(* cell of its row is highlighted under any threshold >= 0.                *)
(***************************************************************************)
C28_NoClicksNeverHighlighted ==
    (pc = "highlighted" /\ given_threshold >= 0) =>
        \A k \in 1..Len(df_with_metrics.rows) :
            df_with_metrics.rows[k].link_clicks <= 0 =>
                /\ df_with_metrics.rows[k].cpc = 0
                /\ \A c \in 1..workbook.details.max_column :
                       workbook.details.cells[k + 1][c].fill = NO_FILL

\* A record without clicks and with spend above the threshold, next to a
\* record with clicks that is highlighted under threshold 0.
C28_Witness ==
    /\ pc = "highlighted"
    /\ given_threshold = 0
    /\ Len(df_with_metrics.rows) = 2
    /\ df_with_metrics.rows[1].link_clicks < 0
    /\ df_with_metrics.rows[1].amount_spent = 4002
    /\ workbook.details.cells[2][1].fill = NO_FILL
    /\ df_with_metrics.rows[2].link_clicks > 0
    /\ workbook.details.cells[3][1].fill = HIGH_CPC_FILL

\* Under a negative threshold the record without clicks is highlighted.
C28_NegativeThreshold ==
    /\ pc = "highlighted"
    /\ given_threshold < 0
    /\ Len(df_with_metrics.rows) >= 1
    /\ df_with_metrics.rows[1].link_clicks = 0
    /\ workbook.details.cells[2][1].fill = HIGH_CPC_FILL

(***************************************************************************)
(* C29: add_metrics_to_dataframe applied to a table it has augmented       *)
(* returns a table equal to it: same columns in the same order, ctr and    *)
(* cpc once each, same values.                                             *)
(***************************************************************************)
Occurrences(seq, x) == Cardinality({i \in 1..Len(seq) : seq[i] = x})

C29_Idempotent ==
    pc = "augmented:again" =>
        /\ raised = NoExc
        /\ df_with_metrics = df
        /\ \A c \in Range(df_with_metrics.columns) :
               Occurrences(df_with_metrics.columns, c) = 1
        /\ {"ctr", "cpc"} \subseteq Range(df_with_metrics.columns)

C29_Witness ==
    /\ pc = "augmented:again"
    /\ raised = NoExc
    /\ Len(df_with_metrics.rows) = 2
    /\ df_with_metrics.rows[1].cpc # 0
    /\ df_with_metrics.rows[2].ctr # 0
    /\ Len(df_with_metrics.columns) = 6
    /\ df_with_metrics = df

(***************************************************************************)
(* C27: the table that read_meta_csv and add_metrics_to_dataframe produce  *)
(* has its columns in the order campaign_name, amount_spent, link_clicks,  *)
(* impressions, ctr, cpc, whatever the order of the source columns; so in  *)
(* the written detail sheet each of the six labels stands above the values *)
(* of its field, the currency and percentage formats are on the spend, cpc *)
(* and ctr columns, and a row is highlighted by the value in its cpc       *)
(* column.                                                                 *)
(***************************************************************************)
MainNumber(text) ==
    CASE text = <<"2", "0", ".", "0", "1">> -> 2001
      [] text = <<"3", "0", ".", "0", "0">> -> 3000
      [] text = <<"4", "0">> -> 40
      [] text = <<"1">> -> 1
      [] text = <<"0">> -> 0
      [] text = <<"-", "3">> -> -3

C27_LabelsAboveTheirFields ==
    /\ (pc \in {"main:report", "exited"} /\ ~df_with_metrics.none) =>
           df_with_metrics.columns = METRIC_COLUMNS
    /\ ReportWritten =>
           \A f \in FileAt(disk, report_path) :
               LET ws == f.content.details
               IN  /\ \A c \in 1..6 : ws.cells[1][c].value = DISPLAY_COLUMNS[c]
                   /\ ws.max_row = Len(file.content.rows) + 1
                   /\ \A k \in 1..Len(file.content.rows) :
                       LET spent == MainNumber(SourceCell(k, "Amount Spent (ZAR)"))
                           clicked == MainNumber(SourceCell(k, "Link Clicks"))
                           shown == MainNumber(SourceCell(k, "Impressions"))
                       IN  /\ ws.cells[k + 1][1].value = SourceCell(k, "Campaign Name")
                           /\ ws.cells[k + 1][2].value = spent
                           /\ ws.cells[k + 1][3].value = clicked
                           /\ ws.cells[k + 1][4].value = shown
                           /\ ws.cells[k + 1][5].value = calculate_ctr(clicked, shown).val
                           /\ ws.cells[k + 1][6].value = calculate_cpc(spent, clicked).val
                           /\ ws.cells[k + 1][2].number_format = ZAR_FORMAT
                           /\ ws.cells[k + 1][5].number_format = PERCENTAGE_FORMAT
                           /\ ws.cells[k + 1][6].number_format = ZAR_FORMAT
                           /\ \A c \in 1..6 :
                                  (ws.cells[k + 1][c].fill = HIGH_CPC_FILL)
                                      <=> ws.cells[k + 1][6].value > CPC_THRESHOLD_AT_IMPORT

C27_Witness ==
    /\ ReportWritten
    /\ file.content.header[1] = "Impressions"
    /\ Len(file.content.rows) = 2
    /\ df_with_metrics.columns = METRIC_COLUMNS
    /\ \E f \in FileAt(disk, report_path) :
           /\ f.content.details.cells[2][6].value = 2001
           /\ f.content.details.cells[2][6].fill = HIGH_CPC_FILL
           /\ f.content.details.cells[3][6].value = 0
           /\ f.content.details.cells[3][4].value = 40

(***************************************************************************)
(* C22: the verbosity flag influences logging only.  Every step main takes *)
(* on a command line is also the step it takes on the command line that    *)
(* differs in the flag alone, with the same exit code, the same disk and   *)
(* the same report; only the level of the logger depends on the flag.      *)
(***************************************************************************)
Flip(a) == [a EXCEPT !.verbose = ~a.verbose]

C22_VerbosityOnlyLogs ==
    [][/\ MainReport => MainReportFor(Flip(args))
       /\ MainRead =>
              /\ log_level' = IF args.verbose THEN "DEBUG" ELSE log_level
              /\ \E got \in {read_meta_csv(file)} :
                     /\ df' = got.df
                     /\ raised' = got.exc
                     /\ exit_code' = IF got.exc = NoExc THEN NoExit ELSE 1
       /\ MainMetrics => log_level' = log_level]_vars

C22_Witness ==
    /\ ReportWritten
    /\ invocation = 1
    /\ args.verbose
    /\ log_level = "DEBUG"
    /\ Len(df_with_metrics.rows) = 1

\* The same report from a run without the flag.
C22_QuietRun ==
    /\ ReportWritten
    /\ invocation = 1
    /\ ~args.verbose
    /\ log_level = "INFO"
    /\ Len(df_with_metrics.rows) = 1

(***************************************************************************)
(* C25: in a process that enters main() several times, the highlighting of *)
(* a report does not depend on the threshold given to an earlier           *)
(* invocation: the rows highlighted are those with cpc > 20.00, also when  *)
(* the invocation runs with the default threshold and the module attribute *)
(* still holds the custom threshold of an earlier one.                     *)
(***************************************************************************)
C25_EarlierThresholdIgnored ==
    ReportWritten =>
        \A f \in FileAt(disk, report_path) :
            \A k \in 1..Len(df_with_metrics.rows) :
                \A c \in 1..f.content.details.max_column :
                    (f.content.details.cells[k + 1][c].fill = HIGH_CPC_FILL)
                        <=> df_with_metrics.rows[k].cpc > CPC_THRESHOLD_AT_IMPORT

C25_Witness ==
    /\ ReportWritten
    /\ invocation = 2
    /\ args.cpc_threshold = CPC_THRESHOLD_AT_IMPORT
    /\ CPC_THRESHOLD = 2500
    /\ df_with_metrics.rows[1].cpc = 2001
    /\ \E f \in FileAt(disk, report_path) :
           f.content.details.cells[2][6].fill = HIGH_CPC_FILL

====
